---- MODULE Spec2Model ----
(***************************************************************************)
(* A model of reference/python/serve_subset.py: the subset server that     *)
(* rewrites mkdocs.yml for one nav section.                                *)
(*                                                                         *)
(* Python values are records with a "kind" field:                          *)
(*   str   [kind |-> "str",  s |-> <<characters>>]                         *)
(*   list  [kind |-> "list", items |-> <<values>>]                         *)
(*   dict  [kind |-> "dict", key |-> <<characters>>, val |-> value]        *)
(*         (a nav entry: a mapping with one key)                           *)
(*   None  [kind |-> "None"]                                               *)
(* Text the program inspects character by character (labels, paths,        *)
(* directory names, regex patterns) is a sequence of one-character         *)
(* strings.  Configuration mappings with fixed key names (plugin options)  *)
(* are functions from key names to values.                                 *)
(*                                                                         *)
(* Specifications:                                                         *)
(*   SpecFind   find_section applied to every small nav forest             *)
(*   SpecNav    runs of main over every small nav                          *)
(*   SpecExcl   runs of main over every small listing of the docs directory*)
(*   SpecPlug   runs of main over every short plugins list                 *)
(*   SpecCodec  yaml.load, yaml.dump, yaml.load over small tagged documents*)
(***************************************************************************)
EXTENDS Integers, Sequences, FiniteSets, TLC

VARIABLES pc,             \* position in main / in the function under study
          argv,           \* command line: [section, argsOk]
          cfgFile,        \* the input mkdocs.yml: [st, doc]
          docsDir,        \* the docs directory: [st, roots]
          target_section, \* main's target_section
          config,         \* main's config (the decoded document)
          original_nav,   \* main's original_nav
          new_nav,        \* main's new_nav
          found_section,  \* main's found_section / find_section's result
          kept_roots,     \* main's kept_roots
          regex_patterns, \* main's regex_patterns
          outFile,        \* the output file: [st, doc]
          writes,         \* number of writes made to the output file
          yamlText,       \* codec: the document text being decoded
          decoded,        \* codec: the document yaml.load returned
          dumped,         \* codec: the text yaml.dump wrote
          reloaded        \* codec: the document loaded from the dumped text

vars == <<pc, argv, cfgFile, docsDir, target_section, config, original_nav,
          new_nav, found_section, kept_roots, regex_patterns, outFile, writes,
          yamlText, decoded, dumped, reloaded>>

-----------------------------------------------------------------------------
(* Python values *)

None == [kind |-> "None"]
Str(s) == [kind |-> "str", s |-> s]
List(items) == [kind |-> "list", items |-> items]
Dict(k, v) == [kind |-> "dict", key |-> k, val |-> v]

Range(seq) == {seq[i] : i \in 1..Len(seq)}

RECURSIVE Concat(_)
Concat(seqs) == IF seqs = <<>> THEN <<>> ELSE Head(seqs) \o Concat(Tail(seqs))

-----------------------------------------------------------------------------
(* str.lower, restricted to ASCII *)

UpperChars == <<"A","B","C","D","E","F","G","H","I","J","K","L","M",
                "N","O","P","Q","R","S","T","U","V","W","X","Y","Z">>
LowerChars == <<"a","b","c","d","e","f","g","h","i","j","k","l","m",
                "n","o","p","q","r","s","t","u","v","w","x","y","z">>

LowerChar(c) ==
    IF \E i \in 1..Len(UpperChars) : UpperChars[i] = c
    THEN LowerChars[CHOOSE i \in 1..Len(UpperChars) : UpperChars[i] = c]
    ELSE c

lower(s) == [i \in 1..Len(s) |-> LowerChar(s[i])]

\* needle in hay  (Python's substring test on str)
Contains(hay, needle) ==
    \E i \in 0..(Len(hay) - Len(needle)) : SubSeq(hay, i + 1, i + Len(needle)) = needle

-----------------------------------------------------------------------------
(* find_section: breadth-first search with a FIFO queue *)

\* The queue discipline: popleft takes the head, children go to the tail.
FindEnqueueDFS(rest, children) == children \o rest
FindEnqueue(rest, children) == rest \o children

FindKey(key) == lower(key)

\* The while loop of find_section; target is already lower-cased.
RECURSIVE FindLoop(_, _)
FindLoop(queue, target) ==
    IF queue = <<>> THEN None
    ELSE LET current_nav == Head(queue)
             rest == Tail(queue)
         IN  IF current_nav.kind = "dict"
             THEN IF target = FindKey(current_nav.key)
                  THEN current_nav
                  ELSE LET child == current_nav.val
                       IN  IF child.kind = "list"
                           THEN FindLoop(FindEnqueue(rest, child.items), target)
                           ELSE IF child.kind = "dict"
                                THEN FindLoop(FindEnqueue(rest, <<child>>), target)
                                ELSE FindLoop(rest, target)
             ELSE FindLoop(rest, target)

find_section(nav, target) ==
    FindLoop(IF nav.kind = "list" THEN nav.items ELSE <<nav>>, lower(target))

-----------------------------------------------------------------------------
(* Navigation forests given to find_section *)

MaxNodes == 4

FindLabels == {<<"X">>, <<"y">>}
FindPaths == {<<"p">>}
FindTargets == {<<"x">>, <<"Y">>, <<"z">>}

\* Nav entries with n nodes: a bare path, a labelled path, a labelled group
\* (a list of entries) or a label whose value is itself a mapping.
RECURSIVE TreesOfSize(_, _, _), ForestsOfSize(_, _, _)
TreesOfSize(n, L, P) ==
    IF n = 1
    THEN {Str(p) : p \in P}
         \cup {Dict(l, Str(p)) : l \in L, p \in P}
         \cup {Dict(l, List(<<>>)) : l \in L}
    ELSE {Dict(l, List(f)) : l \in L, f \in ForestsOfSize(n - 1, L, P)}
         \cup {Dict(l, c) : l \in L,
                            c \in {t \in TreesOfSize(n - 1, L, P) : t.kind = "dict"}}
ForestsOfSize(n, L, P) ==
    IF n = 0 THEN {<<>>}
    ELSE UNION {{<<t>> \o f : t \in TreesOfSize(k, L, P),
                              f \in ForestsOfSize(n - k, L, P)} : k \in 1..n}

ForestsUpTo(n, L, P) == UNION {ForestsOfSize(k, L, P) : k \in 0..n}

-----------------------------------------------------------------------------
(* find_section on its own *)

Idle ==
    /\ argv = [section |-> <<>>, argsOk |-> TRUE]
    /\ cfgFile = [st |-> "missing"]
    /\ docsDir = [st |-> "absent"]
    /\ config = None
    /\ new_nav = <<>>
    /\ kept_roots = {}
    /\ regex_patterns = <<>>
    /\ outFile = [st |-> "absent"]
    /\ writes = 0
    /\ yamlText = None
    /\ decoded = None
    /\ dumped = None
    /\ reloaded = None

InitFind ==
    /\ pc = "find_call"
    /\ original_nav \in {List(f) : f \in ForestsUpTo(MaxNodes, FindLabels, FindPaths)}
    /\ target_section \in FindTargets
    /\ found_section = None
    /\ Idle

CallFindSection ==
    /\ pc = "find_call"
    /\ found_section' = find_section(original_nav, target_section)
    /\ pc' = "find_done"
    /\ UNCHANGED <<argv, cfgFile, docsDir, target_section, config, original_nav,
                   new_nav, kept_roots, regex_patterns, outFile, writes,
                   yamlText, decoded, dumped, reloaded>>

NextFind == CallFindSection

SpecFind == InitFind /\ [][NextFind]_vars

-----------------------------------------------------------------------------
(* What the search is said to return *)

Matches(node, target) == node.kind = "dict" /\ lower(node.key) = lower(target)

ChildrenOf(node) ==
    IF node.kind # "dict" THEN <<>>
    ELSE IF node.val.kind = "list" THEN node.val.items
    ELSE IF node.val.kind = "dict" THEN <<node.val>>
    ELSE <<>>

\* The nodes at depth d of a forest, left to right (depth 1: the top level).
RECURSIVE NodesAtDepth(_, _)
NodesAtDepth(top, d) ==
    IF d = 1 THEN top
    ELSE LET up == NodesAtDepth(top, d - 1)
         IN  Concat([i \in 1..Len(up) |-> ChildrenOf(up[i])])

RECURSIVE Height(_)
Height(level) ==
    IF level = <<>> THEN 0
    ELSE 1 + Height(Concat([i \in 1..Len(level) |-> ChildrenOf(level[i])]))

MatchDepths(top, target) ==
    {d \in 1..Height(top) :
        \E i \in 1..Len(NodesAtDepth(top, d)) : Matches(NodesAtDepth(top, d)[i], target)}

FirstMatchIn(level, target) ==
    level[CHOOSE i \in 1..Len(level) :
             /\ Matches(level[i], target)
             /\ \A j \in 1..(i - 1) : ~Matches(level[j], target)]

SetMin(S) == CHOOSE m \in S : \A x \in S : m <= x

\* C1: find_section returns the first Group in breadth-first order whose label
\* equals the target ignoring case: the leftmost match at the smallest depth
\* that holds a match, so no match is shallower than the result; and the result
\* is None exactly when no Group of the forest matches.
C1_FindSectionBreadthFirst ==
    pc = "find_done" =>
        LET top == original_nav.items
            D == MatchDepths(top, target_section)
        IN  /\ (found_section = None) <=> (D = {})
            /\ D # {} =>
                  /\ found_section = FirstMatchIn(NodesAtDepth(top, SetMin(D)),
                                                  target_section)
                  /\ Matches(found_section, target_section)
                  /\ \A d \in D : d >= SetMin(D)

\* A match at the top level is returned, in another letter case than the
\* target, although an earlier top-level subtree holds a deeper Group with a
\* matching label (depth-first search would have returned that one).
C1_Witness ==
    /\ pc = "find_done"
    /\ found_section # None
    /\ found_section.key # target_section
    /\ LET top == original_nav.items
       IN  /\ Len(top) >= 2
           /\ ~Matches(top[1], target_section)
           /\ MatchDepths(<<top[1]>>, target_section) # {}
           /\ found_section = top[Len(top)]
           /\ found_section \notin Range(NodesAtDepth(<<top[1]>>, 2))

-----------------------------------------------------------------------------
(* Program constants of main *)

\* ALIAS_MAP
AliasKeys == {<<"d","e","e","p","a","g","e","n","t","s">>,
              <<"c","o","r","e">>,
              <<"c","o","m","m","u","n","i","t","y">>}
ALIAS_MAP ==
    [k \in AliasKeys |->
        IF k = <<"c","o","r","e">>
        THEN <<"l","a","n","g","c","h","a","i","n","-","c","o","r","e">>
        ELSE IF k = <<"c","o","m","m","u","n","i","t","y">>
        THEN <<"l","a","n","g","c","h","a","i","n","-",
               "c","o","m","m","u","n","i","t","y">>
        ELSE <<"D","e","e","p"," ","A","g","e","n","t","s">>]

GetStartedMarker == <<"g","e","t"," ","s","t","a","r","t","e","d">>
IndexMd == <<"i","n","d","e","x",".","m","d">>

always_keep ==
    {<<"_","s","n","i","p","p","e","t","s">>,
     <<"j","a","v","a","s","c","r","i","p","t","s">>,
     <<"s","t","a","t","i","c">>,
     <<"s","t","y","l","e","s","h","e","e","t","s">>,
     <<"o","v","e","r","r","i","d","e","s">>,
     <<"t","e","m","p","l","a","t","e","s">>}

-----------------------------------------------------------------------------
(* Mappings with named keys: dict.get, item assignment *)

EmptyDict == [k \in {} |-> None]
Get(d, k, default) == IF k \in DOMAIN d THEN d[k] ELSE default
Put(d, k, v) == [x \in (DOMAIN d) \cup {k} |-> IF x = k THEN v ELSE d[x]]

-----------------------------------------------------------------------------
(* get_all_paths and the root of a path *)

RECURSIVE get_all_paths(_)
get_all_paths(nav_item) ==
    IF nav_item.kind = "list"
    THEN Concat([i \in 1..Len(nav_item.items) |-> get_all_paths(nav_item.items[i])])
    ELSE IF nav_item.kind = "dict" THEN get_all_paths(nav_item.val)
    ELSE IF nav_item.kind = "str" THEN <<nav_item.s>>
    ELSE <<>>

\* s.split("/")[0]
FirstSegment(s) ==
    IF \E i \in 1..Len(s) : s[i] = "/"
    THEN SubSeq(s, 1, (CHOOSE i \in 1..Len(s) :
                          s[i] = "/" /\ \A j \in 1..(i - 1) : s[j] # "/") - 1)
    ELSE s

KeptRootsOf(nav) == {FirstSegment(p) : p \in Range(get_all_paths(List(nav)))}

-----------------------------------------------------------------------------
(* The always-shown filter of main *)

IsAlwaysShown(item) ==
    /\ item.kind = "dict"
    /\ \/ Contains(lower(item.key), GetStartedMarker)
       \/ (item.val.kind = "str" /\ item.val.s = IndexMd)

SelectAlwaysShown(nav) == SelectSeq(nav.items, IsAlwaysShown)

\* new_nav.append(found_section)
AppendFoundFirst(nav, found) == <<found>> \o nav
AppendFound(nav, found) == Append(nav, found)

-----------------------------------------------------------------------------
(* Exclusion patterns *)

GlobOf(root) == root \o <<"/","*","*","/","*">>
RegexOf(glob) == <<"^">> \o FirstSegment(glob) \o <<"/",".","*">>

ShouldExcludeIgnoringKept(root, kept) == root \notin always_keep
ShouldExclude(root, kept) == root \notin kept /\ root \notin always_keep

ToExclude(all_roots, kept) ==
    LET keep(root) == ShouldExclude(root, kept)
        roots == SelectSeq(all_roots, keep)
    IN  [i \in 1..Len(roots) |-> GlobOf(roots[i])]

RegexPatterns(to_exclude) == [i \in 1..Len(to_exclude) |-> RegexOf(to_exclude[i])]

-----------------------------------------------------------------------------
(* The exclude plugin merge.  A plugins entry is a bare name (kind "str") or  *)
(* a one-key mapping (kind "dict") from the plugin's name to its options.     *)

IsExcludeEntry(p) == p.kind = "dict" /\ p.key = "exclude"
IsMkdocstringsEntry(p) == p.kind = "dict" /\ p.key = "mkdocstrings"

\* Index of the first entry of a given sort, 0 when there is none
\* (the for ... break loops over config["plugins"]).
FirstExclude(plugins) ==
    IF \E i \in 1..Len(plugins) : IsExcludeEntry(plugins[i])
    THEN CHOOSE i \in 1..Len(plugins) :
            /\ IsExcludeEntry(plugins[i])
            /\ \A j \in 1..(i - 1) : ~IsExcludeEntry(plugins[j])
    ELSE 0
FirstMkdocstrings(plugins) ==
    IF \E i \in 1..Len(plugins) : IsMkdocstringsEntry(plugins[i])
    THEN CHOOSE i \in 1..Len(plugins) :
            /\ IsMkdocstringsEntry(plugins[i])
            /\ \A j \in 1..(i - 1) : ~IsMkdocstringsEntry(plugins[j])
    ELSE 0

\* exclude_plugin["exclude"]["regex"].extend(regex_patterns)
ReplacePatterns(old, new) == new
ExtendPatterns(old, new) == old \o new

ExtendRegex(entry, patterns) ==
    LET opts == entry.val
        old == IF "regex" \in DOMAIN opts THEN opts.regex ELSE <<>>
    IN  Dict("exclude", Put(opts, "regex", ExtendPatterns(old, patterns)))

\* config["plugins"].insert(0, new_exclude_plugin)
InsertExcludeLast(plugins, entry) == Append(plugins, entry)
InsertExclude(plugins, entry) == <<entry>> \o plugins

MergeExcludePlugin(plugins, patterns) ==
    LET i == FirstExclude(plugins)
    IN  IF i # 0
        THEN [plugins EXCEPT ![i] = ExtendRegex(plugins[i], patterns)]
        ELSE InsertExclude(plugins, Dict("exclude", [regex |-> patterns]))

-----------------------------------------------------------------------------
(* The mkdocstrings step *)

SuppressOptions(options) ==
    LET o1 == IF "preload_modules" \in DOMAIN options
              THEN Put(options, "preload_modules", <<>>)
              ELSE options
        o2 == Put(o1, "signature_crossrefs", FALSE)
        o3 == Put(o2, "show_inheritance_diagram", FALSE)
        o4 == Put(o3, "allow_inspection", FALSE)
    IN  Put(o4, "enable_inventory", FALSE)

\* handlers["python"]["import"] = [] raises KeyError when handlers, the
\* document's mapping or the default {} of .get, has no "python" key.
MkdocstringsRaises(entry) ==
    "python" \notin DOMAIN Get(entry.val, "handlers", EmptyDict)

\* The entry after the step, when nothing raised.  The options mapping the
\* flags are stored in belongs to the document only when the handler had an
\* "options" key: the default {} of .get is a fresh mapping of its own.
MkdocstringsUpdate(entry) ==
    LET cfg == entry.val
        handlers == cfg.handlers
        python_handler == handlers.python
        options == SuppressOptions(Get(python_handler, "options", EmptyDict))
        withOptions == IF "options" \in DOMAIN python_handler
                       THEN Put(python_handler, "options", options)
                       ELSE python_handler
        withImport == Put(withOptions, "import", <<>>)
    IN  Dict("mkdocstrings", Put(cfg, "handlers", Put(handlers, "python", withImport)))

-----------------------------------------------------------------------------
(* main, one action per step *)

Absent == [st |-> "absent"]

\* How a run ends early: "failed" is sys.exit(1) after an error message, a
\* "raised_..." status is an exception nothing catches.
ExitWith(status) == pc' = status

\* Port and output-name validation: sys.exit(1) on a bad port, no free port
\* or an output name without the .yml extension.
ValidateArgs ==
    /\ pc = "start"
    /\ \/ /\ ~argv.argsOk
          /\ ExitWith("failed")
       \/ /\ argv.argsOk
          /\ pc' = "alias"
    /\ UNCHANGED <<argv, cfgFile, docsDir, target_section, config, original_nav,
                   new_nav, found_section, kept_roots, regex_patterns, outFile,
                   writes, yamlText, decoded, dumped, reloaded>>

ResolveAlias ==
    /\ pc = "alias"
    /\ target_section' = IF lower(argv.section) \in DOMAIN ALIAS_MAP
                         THEN ALIAS_MAP[lower(argv.section)]
                         ELSE argv.section
    /\ pc' = "load"
    /\ UNCHANGED <<argv, cfgFile, docsDir, config, original_nav, new_nav,
                   found_section, kept_roots, regex_patterns, outFile, writes,
                   yamlText, decoded, dumped, reloaded>>

LoadConfig ==
    /\ pc = "load"
    /\ \/ /\ cfgFile.st = "missing"          \* FileNotFoundError
          /\ ExitWith("failed")
          /\ UNCHANGED config
       \/ /\ cfgFile.st = "malformed"        \* yaml.YAMLError
          /\ ExitWith("failed")
          /\ UNCHANGED config
       \/ /\ cfgFile.st = "ok"
          /\ config' = cfgFile.doc
          /\ pc' = "check_nav"
    /\ UNCHANGED <<argv, cfgFile, docsDir, target_section, original_nav, new_nav,
                   found_section, kept_roots, regex_patterns, outFile, writes,
                   yamlText, decoded, dumped, reloaded>>

CheckNav ==
    /\ pc = "check_nav"
    /\ \/ /\ "nav" \notin DOMAIN config
          /\ ExitWith("failed")
          /\ UNCHANGED original_nav
       \/ /\ "nav" \in DOMAIN config
          /\ original_nav' = config.nav
          /\ pc' = "keep"
    /\ UNCHANGED <<argv, cfgFile, docsDir, target_section, config, new_nav,
                   found_section, kept_roots, regex_patterns, outFile, writes,
                   yamlText, decoded, dumped, reloaded>>

KeepAlwaysShown ==
    /\ pc = "keep"
    /\ new_nav' = SelectAlwaysShown(original_nav)
    /\ pc' = "find"
    /\ UNCHANGED <<argv, cfgFile, docsDir, target_section, config, original_nav,
                   found_section, kept_roots, regex_patterns, outFile, writes,
                   yamlText, decoded, dumped, reloaded>>

\* A run that goes on without testing what find_section returned.
FindSectionUnchecked ==
    /\ pc = "find"
    /\ found_section' = find_section(original_nav, target_section)
    /\ new_nav' = AppendFound(new_nav, found_section')
    /\ config' = Put(config, "nav", List(new_nav'))
    /\ pc' = "kept_roots"
    /\ UNCHANGED <<argv, cfgFile, docsDir, target_section, original_nav,
                   kept_roots, regex_patterns, outFile, writes, yamlText,
                   decoded, dumped, reloaded>>

FindSection ==
    /\ pc = "find"
    /\ found_section' = find_section(original_nav, target_section)
    /\ \/ /\ found_section' = None
          /\ ExitWith("failed")
          /\ UNCHANGED <<new_nav, config>>
       \/ /\ found_section' # None
          /\ new_nav' = AppendFound(new_nav, found_section')
          /\ config' = Put(config, "nav", List(new_nav'))
          /\ pc' = "kept_roots"
    /\ UNCHANGED <<argv, cfgFile, docsDir, target_section, original_nav,
                   kept_roots, regex_patterns, outFile, writes, yamlText,
                   decoded, dumped, reloaded>>

ComputeKeptRoots ==
    /\ pc = "kept_roots"
    /\ kept_roots' = KeptRootsOf(new_nav)
    /\ pc' = "docs"
    /\ UNCHANGED <<argv, cfgFile, docsDir, target_section, config, original_nav,
                   new_nav, found_section, regex_patterns, outFile, writes,
                   yamlText, decoded, dumped, reloaded>>

\* docs_dir.exists(), then docs_dir.iterdir(): a directory that exists but
\* cannot be enumerated makes iterdir raise, and nothing catches it.
ListDocs ==
    /\ pc = "docs"
    /\ \/ /\ docsDir.st = "absent"
          /\ pc' = "mkdocstrings"
          /\ UNCHANGED regex_patterns
       \/ /\ docsDir.st = "unreadable"
          /\ ExitWith("raised_OSError")
          /\ UNCHANGED regex_patterns
       \/ /\ docsDir.st = "ok"
          /\ LET to_exclude == ToExclude(docsDir.roots, kept_roots)
             IN  \/ /\ to_exclude = <<>>
                    /\ pc' = "mkdocstrings"
                    /\ UNCHANGED regex_patterns
                 \/ /\ to_exclude # <<>>
                    /\ regex_patterns' = RegexPatterns(to_exclude)
                    /\ pc' = "merge"
    /\ UNCHANGED <<argv, cfgFile, docsDir, target_section, config, original_nav,
                   new_nav, found_section, kept_roots, outFile, writes,
                   yamlText, decoded, dumped, reloaded>>

MergeExclude ==
    /\ pc = "merge"
    /\ LET plugins == IF "plugins" \in DOMAIN config THEN config.plugins.items ELSE <<>>
       IN  config' = Put(config, "plugins",
                         List(MergeExcludePlugin(plugins, regex_patterns)))
    /\ pc' = "mkdocstrings"
    /\ UNCHANGED <<argv, cfgFile, docsDir, target_section, original_nav, new_nav,
                   found_section, kept_roots, regex_patterns, outFile, writes,
                   yamlText, decoded, dumped, reloaded>>

SuppressCrossrefs ==
    /\ pc = "mkdocstrings"
    /\ LET plugins == IF "plugins" \in DOMAIN config THEN config.plugins.items ELSE <<>>
           i == FirstMkdocstrings(plugins)
       IN  \/ /\ i = 0
              /\ pc' = "write"
              /\ UNCHANGED config
           \/ /\ i # 0
              /\ MkdocstringsRaises(plugins[i])
              /\ ExitWith("raised_KeyError")
              /\ UNCHANGED config
           \/ /\ i # 0
              /\ ~MkdocstringsRaises(plugins[i])
              /\ config' = Put(config, "plugins",
                               List([plugins EXCEPT ![i] = MkdocstringsUpdate(plugins[i])]))
              /\ pc' = "write"
    /\ UNCHANGED <<argv, cfgFile, docsDir, target_section, original_nav, new_nav,
                   found_section, kept_roots, regex_patterns, outFile, writes,
                   yamlText, decoded, dumped, reloaded>>

WriteOutput ==
    /\ pc = "write"
    /\ outFile' = [st |-> "present", doc |-> config]
    /\ writes' = writes + 1
    /\ pc' = "serve"
    /\ UNCHANGED <<argv, cfgFile, docsDir, target_section, config, original_nav,
                   new_nav, found_section, kept_roots, regex_patterns,
                   yamlText, decoded, dumped, reloaded>>

\* subprocess.run(cmd, check=True); the finally clause removes the output file
\* whether the server ended, was interrupted or failed.
Serve ==
    /\ pc = "serve"
    /\ \E outcome \in {"ended", "interrupted", "error"} :
          pc' = IF outcome = "error" THEN "raised_CalledProcessError" ELSE "done"
    /\ outFile' = Absent
    /\ UNCHANGED <<argv, cfgFile, docsDir, target_section, config, original_nav,
                   new_nav, found_section, kept_roots, regex_patterns, writes,
                   yamlText, decoded, dumped, reloaded>>

NextMain ==
    \/ ValidateArgs
    \/ ResolveAlias
    \/ LoadConfig
    \/ CheckNav
    \/ KeepAlwaysShown
    \/ FindSection
    \/ ComputeKeptRoots
    \/ ListDocs
    \/ MergeExclude
    \/ SuppressCrossrefs
    \/ WriteOutput
    \/ Serve

-----------------------------------------------------------------------------
(* Inputs of main *)

MaxNavNodes == 3
MaxExclNodes == 2
MaxRoots == 3
MaxPlugins == 2

L_GetStarted == <<"G","e","t"," ","S","t","a","r","t","e","d","!">>
L_Core == <<"L","a","n","g","C","h","a","i","n","-","C","o","r","e">>
L_Lib == <<"L","i","b">>
L_Home == <<"H","o","m","e">>
P_a == <<"a","/","i",".","m","d">>
P_adotb == <<"a",".","b","/","i",".","m","d">>
P_axb == <<"a","x","b","/","i",".","m","d">>
P_adashb == <<"a","-","b","/","i",".","m","d">>

S_Core == <<"C","o","r","e">>
S_GetStarted == <<"g","e","t"," ","s","t","a","r","t","e","d","!">>
S_Nope == <<"n","o","p","e">>

R_a == <<"a">>
R_adashb == <<"a","-","b">>
R_adotb == <<"a",".","b">>
R_axb == <<"a","x","b">>
R_static == <<"s","t","a","t","i","c">>
R_b == <<"b">>
RootNames == {R_a, R_adashb, R_adotb, R_axb, R_static}

\* Directory listings: iterdir yields each directory once, in any order.
RECURSIVE ListingsOfLen(_, _)
ListingsOfLen(n, names) ==
    IF n = 0 THEN {<<>>}
    ELSE {Append(l, r) : l \in ListingsOfLen(n - 1, names), r \in names}
ListingsUpTo(n, names) ==
    {l \in UNION {ListingsOfLen(k, names) : k \in 0..n} :
        \A i, j \in 1..Len(l) : i # j => l[i] # l[j]}

DocsOk(roots) == [st |-> "ok", roots |-> roots]
DocsAbsent == [st |-> "absent"]
DocsUnreadable == [st |-> "unreadable"]

\* Plugin entries of mkdocs.yml
Pat_foo == <<"^","f","o","o","/",".","*">>
Pat_b == <<"^","b","/",".","*">>
Plug_search == [kind |-> "str", s |-> "search"]
Plug_tags == Dict("tags", [tags_file |-> "tags.md"])
Plug_excludeGlob == Dict("exclude", [glob |-> <<Pat_b>>])
Plug_exclude1 == Dict("exclude", [regex |-> <<Pat_foo>>])
Plug_exclude2 == Dict("exclude", [regex |-> <<Pat_foo, Pat_b>>])
Plug_mkEmpty == Dict("mkdocstrings", EmptyDict)
Plug_mkNoPython == Dict("mkdocstrings", [handlers |-> EmptyDict])
Plug_mkNoOptions == Dict("mkdocstrings", [handlers |-> [python |-> [paths |-> <<"src">>]]])
Plug_mkOptions ==
    Dict("mkdocstrings",
         [handlers |-> [python |-> [options |-> [show_source |-> TRUE]]]])
Plug_mkFull ==
    Dict("mkdocstrings",
         [handlers |->
            [python |->
               [import |-> <<"https://docs.python.org/3/objects.inv">>,
                options |-> [preload_modules |-> <<"langchain", "langgraph">>,
                             signature_crossrefs |-> TRUE,
                             enable_inventory |-> TRUE]]]])

PluginEntries ==
    {Plug_search, Plug_tags, Plug_excludeGlob, Plug_exclude1, Plug_exclude2,
     Plug_mkEmpty, Plug_mkNoPython, Plug_mkNoOptions, Plug_mkOptions, Plug_mkFull}

RECURSIVE SeqsOfLen(_, _)
SeqsOfLen(n, S) ==
    IF n = 0 THEN {<<>>}
    ELSE {Append(l, x) : l \in SeqsOfLen(n - 1, S), x \in S}
SeqsUpTo(n, S) == UNION {SeqsOfLen(k, S) : k \in 0..n}

\* The decoded mkdocs.yml: a mapping that may lack "nav" and "plugins"
\* (None stands for a key that is not there).
DocOf(nav, plugins) ==
    [k \in {"site_name"} \cup (IF nav = None THEN {} ELSE {"nav"})
                         \cup (IF plugins = None THEN {} ELSE {"plugins"}) |->
        IF k = "nav" THEN nav
        ELSE IF k = "plugins" THEN plugins
        ELSE Str(<<"d","o","c","s">>)]

InitMainWith(args, files, docs) ==
    /\ pc = "start"
    /\ argv \in args
    /\ cfgFile \in files
    /\ docsDir \in docs
    /\ target_section = <<>>
    /\ config = None
    /\ original_nav = None
    /\ new_nav = <<>>
    /\ found_section = None
    /\ kept_roots = {}
    /\ regex_patterns = <<>>
    /\ outFile = Absent
    /\ writes = 0
    /\ yamlText = None
    /\ decoded = None
    /\ dumped = None
    /\ reloaded = None

ArgsOk(sections) == {[section |-> x, argsOk |-> TRUE] : x \in sections}
FilesOk(navs, pluginLists) ==
    {[st |-> "ok", doc |-> DocOf(List(n), p)] : n \in navs, p \in pluginLists}

\* A few runs through every branch of main: bad arguments, an input that is
\* missing, malformed or without nav, a section that is not there, each state
\* of the docs directory and each shape of the plugins list.
BaseNav ==
    <<Str(IndexMd),
      Dict(L_Home, Str(IndexMd)),
      Dict(L_GetStarted, List(<<Str(P_a)>>)),
      Dict(L_Lib, List(<<Dict(L_Core, Str(P_axb))>>)),
      Dict(L_Core, List(<<Str(P_adotb), Dict(L_Lib, Str(P_adashb))>>))>>
BasePlugins ==
    {None, List(<<Plug_search>>), List(<<Plug_search, Plug_exclude1, Plug_mkFull>>),
     List(<<Plug_mkNoPython>>)}
BaseDocs ==
    {DocsAbsent, DocsUnreadable, DocsOk(<<R_static, R_adotb>>),
     DocsOk(<<R_axb, R_a, R_adotb>>)}

InitBase ==
    \/ InitMainWith(ArgsOk({S_Core, S_Nope}), FilesOk({BaseNav}, BasePlugins), BaseDocs)
    \/ InitMainWith({[section |-> S_Core, argsOk |-> FALSE]},
                    FilesOk({BaseNav}, {None}), {DocsAbsent})
    \/ InitMainWith(ArgsOk({S_Core}),
                    {[st |-> "missing"], [st |-> "malformed"],
                     [st |-> "ok", doc |-> DocOf(None, None)],
                     [st |-> "ok", doc |-> DocOf(None, List(<<Plug_search>>))]},
                    {DocsAbsent, DocsOk(<<R_a>>)})

\* Runs over every small nav.
InitNav ==
    \/ InitBase
    \/ InitMainWith(ArgsOk({S_Core, S_GetStarted}),
                    FilesOk(ForestsUpTo(MaxNavNodes, {L_GetStarted, L_Core}, {IndexMd, P_a}),
                            {List(<<Plug_search>>)}),
                    {DocsAbsent, DocsOk(<<R_a, R_axb>>)})

\* Runs over every small directory listing.
InitExcl ==
    \/ InitBase
    \/ InitMainWith(ArgsOk({S_Core}),
                    FilesOk({<<Dict(L_Core, List(f))>> :
                                f \in ForestsUpTo(MaxExclNodes, {L_Lib},
                                                 {P_a, P_adotb, P_adashb})},
                            {None, List(<<Plug_exclude1>>)}),
                    {DocsOk(l) : l \in ListingsUpTo(MaxRoots, RootNames)})

\* Runs over every short plugins list.
InitPlug ==
    \/ InitBase
    \/ InitMainWith(ArgsOk({S_Core}),
                    FilesOk({BaseNav},
                            {List(p) : p \in SeqsUpTo(MaxPlugins, PluginEntries)}),
                    BaseDocs \cup {DocsOk(<<R_static>>), DocsOk(<<R_b, R_static, R_axb>>)})

SpecNav == InitNav /\ [][NextMain]_vars
SpecExcl == InitExcl /\ [][NextMain]_vars
SpecPlug == InitPlug /\ [][NextMain]_vars

-----------------------------------------------------------------------------
(* Where a run of main stands *)

Terminated == pc \in {"done", "failed", "raised_OSError", "raised_KeyError",
                      "raised_CalledProcessError"}

\* The run is past the nav rewrite (the section was found).
NavRewritten == pc \in {"kept_roots", "docs", "merge", "mkdocstrings", "write",
                        "serve", "done", "raised_OSError", "raised_KeyError",
                        "raised_CalledProcessError"}

InputHasNav == cfgFile.st = "ok" /\ "nav" \in DOMAIN cfgFile.doc

\* C2: the output document is written only after the input was decoded, had a
\* nav key and find_section matched; a run whose input is missing or malformed,
\* lacks nav, or has no section matching the resolved target ends in the failure
\* outcome (sys.exit(1)) with no write made and no output file left.
C2_NoOutputOnFailure ==
    /\ writes > 0 =>
          /\ InputHasNav
          /\ MatchDepths(cfgFile.doc.nav.items, target_section) # {}
          /\ found_section # None
    /\ pc = "failed" => writes = 0 /\ outFile = Absent
    /\ Terminated =>
          ( (\/ ~InputHasNav
             \/ MatchDepths(cfgFile.doc.nav.items, target_section) = {})
            => pc = "failed" /\ writes = 0 /\ outFile = Absent )

\* A run over a decoded input with a nav of Groups, none matching, has failed.
C2_Witness ==
    /\ pc = "failed"
    /\ argv.argsOk
    /\ InputHasNav
    /\ Height(cfgFile.doc.nav.items) >= 2
    /\ found_section = None
    /\ target_section # argv.section
    /\ writes = 0

\* An entry that is always shown, stated on the input document.
ShownEntry(e) ==
    /\ e.kind = "dict"
    /\ \/ \E i \in 1..Len(e.key) :
             /\ i + Len(GetStartedMarker) - 1 <= Len(e.key)
             /\ \A j \in 1..Len(GetStartedMarker) :
                   LowerChar(e.key[i + j - 1]) = GetStartedMarker[j]
       \/ e.val = Str(IndexMd)

\* C8: once a section matched, the top-level nav is the original top-level
\* entries that are always shown (label containing "get started" ignoring case,
\* or value index.md), in their original order, followed by the matched Group
\* as the last element; the original nav sequence is what the input held.
C8_NavRewrite ==
    NavRewritten =>
        LET orig == cfgFile.doc.nav.items
            now == config.nav.items
        IN  /\ now = SelectSeq(orig, ShownEntry) \o <<found_section>>
            /\ now[Len(now)] = found_section
            /\ Matches(found_section, target_section)
            /\ original_nav = cfgFile.doc.nav
            /\ new_nav = now

\* Two always-shown entries (one by its label, one by index.md) are kept in
\* order before the matched Group, and other entries were dropped.
C8_Witness ==
    /\ pc = "write"
    /\ LET orig == cfgFile.doc.nav.items
           now == config.nav.items
       IN  /\ Len(now) >= 3
           /\ Len(orig) > Len(now)
           /\ now[1].val = Str(IndexMd)
           /\ Contains(lower(now[2].key), GetStartedMarker)
           /\ ~ShownEntry(now[Len(now)])
           /\ \E i \in 1..Len(orig) : orig[i].kind = "str"

-----------------------------------------------------------------------------
(* Regular expressions as the exclude plugin applies them: re.match of the    *)
(* pattern against a source path.  The patterns main builds use a leading ^,  *)
(* literal characters, "." (any character but a newline) and "*".             *)

ReCharMatches(p, c) == IF p = "." THEN c # "\n" ELSE p = c

\* Does re[i..] match a prefix of text[j..] ?
RECURSIVE ReMatchHere(_, _, _, _)
ReMatchHere(re, i, text, j) ==
    IF i > Len(re) THEN TRUE
    ELSE IF i + 1 <= Len(re) /\ re[i + 1] = "*"
    THEN \E k \in j..(Len(text) + 1) :
            /\ \A m \in j..(k - 1) : ReCharMatches(re[i], text[m])
            /\ ReMatchHere(re, i + 2, text, k)
    ELSE /\ j <= Len(text)
         /\ ReCharMatches(re[i], text[j])
         /\ ReMatchHere(re, i + 1, text, j + 1)

re_match(pattern, text) ==
    IF pattern # <<>> /\ pattern[1] = "^"
    THEN ReMatchHere(pattern, 2, text, 1)
    ELSE ReMatchHere(pattern, 1, text, 1)

-----------------------------------------------------------------------------
(* The exclusion set *)

PatternFor(root) == <<"^">> \o root \o <<"/", ".", "*">>

RECURSIVE LeafPaths(_)
LeafPaths(node) ==
    IF node.kind = "str" THEN {node.s}
    ELSE IF node.kind = "dict" THEN LeafPaths(node.val)
    ELSE IF node.kind = "list"
    THEN UNION {LeafPaths(node.items[i]) : i \in 1..Len(node.items)}
    ELSE {}

\* The first segment of a path: its longest prefix without a separator.
RootOf(path) ==
    CHOOSE r \in {SubSeq(path, 1, n) : n \in 0..Len(path)} :
        /\ \A i \in 1..Len(r) : r[i] # "/"
        /\ Len(r) = Len(path) \/ path[Len(r) + 1] = "/"

InputPlugins ==
    IF "plugins" \in DOMAIN cfgFile.doc THEN cfgFile.doc.plugins.items ELSE <<>>

\* The run listed the docs directory and is past the exclusion computation.
ExclusionsComputed ==
    /\ docsDir.st = "ok"
    /\ pc \in {"merge", "mkdocstrings", "write", "serve", "done",
               "raised_KeyError", "raised_CalledProcessError"}

\* The exclusion patterns were just merged into the plugins list.
JustMerged == pc = "mkdocstrings" /\ regex_patterns # <<>>

\* C3: the roots for which an exclusion pattern is emitted are the listed roots
\* minus the roots of the Leaf paths of the rewritten nav minus always_keep: no
\* kept root and no always_keep member is excluded, every other listed root is.
C3_ExclusionSet ==
    ExclusionsComputed =>
        LET all == Range(docsDir.roots)
            kept == {RootOf(p) : p \in LeafPaths(config.nav)}
            excluded == {r \in all : PatternFor(r) \in Range(regex_patterns)}
        IN  /\ excluded = (all \ kept) \ always_keep
            /\ Range(regex_patterns) = {PatternFor(r) : r \in excluded}
            /\ Len(regex_patterns) = Cardinality(excluded)
            /\ JustMerged =>
                  \E i \in 1..Len(config.plugins.items) :
                     /\ config.plugins.items[i].kind = "dict"
                     /\ config.plugins.items[i].key = "exclude"
                     /\ Range(regex_patterns)
                           \subseteq Range(config.plugins.items[i].val.regex)

\* A listing with an excluded root, a kept root and an always_keep member.
C3_Witness ==
    /\ JustMerged
    /\ docsDir.st = "ok"
    /\ LET all == Range(docsDir.roots)
       IN  /\ \E r \in all : PatternFor(r) \in Range(regex_patterns)
           /\ \E r \in all : r \in {RootOf(p) : p \in LeafPaths(config.nav)}
           /\ \E r \in all : r \in always_keep

PathTails == {<<>>, <<"i", ".", "m", "d">>, <<"x", "/", "y">>}

\* C4: the pattern emitted for an excluded root X matches every path X/...,
\* and matches no path under a differently-named listed root Y.
C4_AnchoredPatterns ==
    ExclusionsComputed =>
        \A X \in Range(docsDir.roots) :
            PatternFor(X) \in Range(regex_patterns) =>
                \A t \in PathTails :
                    /\ re_match(PatternFor(X), X \o <<"/">> \o t)
                    /\ \A Y \in Range(docsDir.roots) \ {X} :
                          ~re_match(PatternFor(X), Y \o <<"/">> \o t)

\* C5: with a non-empty exclusion set and an exclusion-plugin entry already in
\* the plugins list, the merge appends: that entry's pattern list is its original
\* patterns in their order followed by one ^root/.* pattern per excluded root;
\* its other options, every other entry and the length of the list are as before.
C5_MergeAppends ==
    (JustMerged /\ FirstExclude(InputPlugins) # 0) =>
        LET before == InputPlugins
            after == config.plugins.items
            i == CHOOSE k \in 1..Len(before) :
                    /\ before[k].kind = "dict" /\ before[k].key = "exclude"
                    /\ \A j \in 1..(k - 1) :
                          ~(before[j].kind = "dict" /\ before[j].key = "exclude")
            old == IF "regex" \in DOMAIN before[i].val THEN before[i].val.regex ELSE <<>>
            excluded == (Range(docsDir.roots) \ kept_roots) \ always_keep
        IN  /\ Len(after) = Len(before)
            /\ \A j \in 1..Len(before) : j # i => after[j] = before[j]
            /\ after[i].kind = "dict" /\ after[i].key = "exclude"
            /\ SubSeq(after[i].val.regex, 1, Len(old)) = old
            /\ Len(after[i].val.regex) = Len(old) + Cardinality(excluded)
            /\ {after[i].val.regex[k] : k \in (Len(old) + 1)..Len(after[i].val.regex)}
                  = {PatternFor(r) : r \in excluded}
            /\ \A k \in (DOMAIN before[i].val) \ {"regex"} :
                  after[i].val[k] = before[i].val[k]

\* An exclusion entry that already held two patterns, behind another plugin,
\* got two new patterns appended.
C5_Witness ==
    /\ JustMerged
    /\ FirstExclude(InputPlugins) = 2
    /\ "regex" \in DOMAIN InputPlugins[2].val
    /\ Len(InputPlugins[2].val.regex) = 2
    /\ Len(config.plugins.items[2].val.regex) = 4

\* C6: with a non-empty exclusion set and no exclusion-plugin entry in the
\* plugins list, the merge puts a new exclusion entry at index 0 and every
\* earlier entry follows it in its original order.
C6_InsertAtHead ==
    (JustMerged /\ \A j \in 1..Len(InputPlugins) :
                      ~(InputPlugins[j].kind = "dict" /\ InputPlugins[j].key = "exclude")) =>
        LET after == config.plugins.items
        IN  /\ Len(after) = Len(InputPlugins) + 1
            /\ after[1] = Dict("exclude", [regex |-> regex_patterns])
            /\ Tail(after) = InputPlugins

\* Two plugins without an exclusion entry: the new entry went in front of both.
C6_Witness ==
    /\ JustMerged
    /\ Len(InputPlugins) = 2
    /\ InputPlugins[1] # InputPlugins[2]
    /\ FirstExclude(InputPlugins) = 0
    /\ config.plugins.items[1].key = "exclude"

\* The first mkdocstrings entry of a plugins list, 0 when there is none.
MkIndex(plugins) ==
    IF \E k \in 1..Len(plugins) :
          plugins[k].kind = "dict" /\ plugins[k].key = "mkdocstrings"
    THEN CHOOSE k \in 1..Len(plugins) :
            /\ plugins[k].kind = "dict" /\ plugins[k].key = "mkdocstrings"
            /\ \A j \in 1..(k - 1) :
                  ~(plugins[j].kind = "dict" /\ plugins[j].key = "mkdocstrings")
    ELSE 0

\* The run is past the mkdocstrings step.
CrossrefsSuppressed == pc \in {"write", "serve", "done", "raised_CalledProcessError"}

\* C7: for a document whose plugins list has the mkdocstrings entry, whatever
\* handler keys the entry has, the suppression step raises nothing and afterwards
\* the document's python handler options have signature_crossrefs,
\* show_inheritance_diagram, allow_inspection and enable_inventory false, the
\* handler's import list is empty and a preload_modules list that existed is empty.
C7_SuppressionAlwaysApplies ==
    (cfgFile.st = "ok" /\ MkIndex(InputPlugins) # 0) =>
        /\ pc # "raised_KeyError"
        /\ CrossrefsSuppressed =>
              LET before == InputPlugins[MkIndex(InputPlugins)].val
                  after == config.plugins.items[MkIndex(config.plugins.items)].val
                  had_preload ==
                      /\ "handlers" \in DOMAIN before
                      /\ "python" \in DOMAIN before.handlers
                      /\ "options" \in DOMAIN before.handlers.python
                      /\ "preload_modules" \in DOMAIN before.handlers.python.options
              IN  /\ "handlers" \in DOMAIN after
                  /\ "python" \in DOMAIN after.handlers
                  /\ "import" \in DOMAIN after.handlers.python
                  /\ after.handlers.python.import = <<>>
                  /\ "options" \in DOMAIN after.handlers.python
                  /\ LET options == after.handlers.python.options
                     IN  /\ \A k \in {"signature_crossrefs", "show_inheritance_diagram",
                                      "allow_inspection", "enable_inventory"} :
                               k \in DOMAIN options /\ options[k] = FALSE
                         /\ had_preload => options.preload_modules = <<>>

\* C10: when the docs directory is absent or cannot be enumerated the run does
\* not abort: it goes on with no exclusion patterns, adds no exclusion-plugin
\* entry to the document, and reaches the write of the output document.
C10_DegradedListing ==
    (docsDir.st \in {"absent", "unreadable"}
        /\ pc \in {"mkdocstrings", "write", "serve", "done", "raised_OSError",
                   "raised_KeyError", "raised_CalledProcessError"}) =>
        /\ pc \notin {"raised_OSError", "raised_KeyError"}
        /\ regex_patterns = <<>>
        /\ LET now == IF "plugins" \in DOMAIN config THEN config.plugins.items ELSE <<>>
           IN  Cardinality({k \in 1..Len(now) : IsExcludeEntry(now[k])})
                  = Cardinality({k \in 1..Len(InputPlugins) : IsExcludeEntry(InputPlugins[k])})
        /\ Terminated => writes = 1

-----------------------------------------------------------------------------
(* The tag-preserving YAML codec.                                             *)
(*                                                                            *)
(* Text is a tree of presentation nodes: a scalar has an explicit tag or none,*)
(* a style (plain or quoted) and its characters; a sequence and a mapping have*)
(* an explicit tag or none.  yaml.load composes nodes (resolving the tag of   *)
(* an untagged scalar from its style and value) and constructs objects;       *)
(* yaml.dump represents objects as nodes and emits text.                      *)

Tag(base, suffix) == [base |-> base, suffix |-> suffix]
NoTag == Tag("", "")
T_str == Tag("str", "")
T_bool == Tag("bool", "")
T_int == Tag("int", "")
T_null == Tag("null", "")
T_seq == Tag("seq", "")
T_map == Tag("map", "")
T_ENV == Tag("!ENV", "")
T_pyname(suffix) == Tag("python/name:", suffix)

TScalar(tag, style, v) == [k |-> "scalar", tag |-> tag, style |-> style, v |-> v]
TSeq(tag, items) == [k |-> "seq", tag |-> tag, items |-> items]
TMap(tag, pairs) == [k |-> "map", tag |-> tag, pairs |-> pairs]

\* SafeLoader's implicit resolver (YAML 1.1) on the scalars of the model
TrueWords == {"true", "True", "yes", "on"}
FalseWords == {"false", "False", "no", "off"}
NullWords == {"", "~", "null"}
IntWords == {"0", "7", "010", "8"}
IntValue(v) == IF v = "0" THEN 0 ELSE IF v = "7" THEN 7 ELSE 8
IntText(n) == IF n = 0 THEN "0" ELSE IF n = 7 THEN "7" ELSE "8"

ResolvePlain(v) ==
    IF v \in TrueWords \cup FalseWords THEN T_bool
    ELSE IF v \in IntWords THEN T_int
    ELSE IF v \in NullWords THEN T_null
    ELSE T_str

\* Composer: text to nodes with their tags resolved
RECURSIVE Compose(_)
Compose(t) ==
    IF t.k = "scalar"
    THEN [k |-> "scalar", v |-> t.v,
          tag |-> IF t.tag # NoTag THEN t.tag
                  ELSE IF t.style = "quoted" THEN T_str
                  ELSE ResolvePlain(t.v)]
    ELSE IF t.k = "seq"
    THEN [k |-> "seq", tag |-> IF t.tag # NoTag THEN t.tag ELSE T_seq,
          items |-> [i \in 1..Len(t.items) |-> Compose(t.items[i])]]
    ELSE [k |-> "map", tag |-> IF t.tag # NoTag THEN t.tag ELSE T_map,
          pairs |-> [i \in 1..Len(t.pairs) |->
                        [key |-> t.pairs[i].key, value |-> Compose(t.pairs[i].value)]]]

\* Python objects of the codec
PyStr(v) == [t |-> "str", v |-> v]
PyBool(b) == [t |-> "bool", b |-> b]
PyInt(n) == [t |-> "int", n |-> n]
PyNone == [t |-> "NoneType"]
PyList(items) == [t |-> "list", items |-> items]
PyDict(pairs) == [t |-> "dict", pairs |-> pairs]
EnvTag(value) == [t |-> "EnvTag", value |-> value]
PythonNameTag(suffix) == [t |-> "PythonNameTag", suffix |-> suffix]

\* env_constructor raises (a ConstructorError from construct_scalar) on a
\* mapping node; the load raises when any node of the document does.
RECURSIVE ConstructRaises(_)
ConstructRaises(node) ==
    IF node.tag.base = "python/name:" THEN FALSE
    ELSE IF node.k = "scalar" THEN FALSE
    ELSE IF node.k = "seq"
    THEN \E i \in 1..Len(node.items) : ConstructRaises(node.items[i])
    ELSE \/ node.tag = T_ENV
         \/ \E i \in 1..Len(node.pairs) : ConstructRaises(node.pairs[i].value)

\* env_constructor: a sequence node gives a list, a scalar node its text
env_constructor(construct_sequence, node) ==
    IF node.k = "seq" THEN EnvTag(PyList(construct_sequence))
    ELSE EnvTag(PyStr(node.v))

\* python_name_multi_constructor: the tag suffix, whatever the node holds
python_name_multi_constructor(tag_suffix, node) == PythonNameTag(tag_suffix)

RECURSIVE Construct(_)
Construct(node) ==
    IF node.tag.base = "python/name:"
    THEN python_name_multi_constructor(node.tag.suffix, node)
    ELSE IF node.k = "scalar"
    THEN IF node.tag = T_ENV THEN env_constructor(<<>>, node)
         ELSE IF node.tag = T_bool THEN PyBool(node.v \in TrueWords)
         ELSE IF node.tag = T_int THEN PyInt(IntValue(node.v))
         ELSE IF node.tag = T_null THEN PyNone
         ELSE PyStr(node.v)
    ELSE IF node.k = "seq"
    THEN LET items == [i \in 1..Len(node.items) |-> Construct(node.items[i])]
         IN  IF node.tag = T_ENV THEN env_constructor(items, node)
             ELSE PyList(items)
    ELSE PyDict([i \in 1..Len(node.pairs) |->
                    [key |-> node.pairs[i].key, value |-> Construct(node.pairs[i].value)]])

\* str(data.value) of env_representer
PyStrOf(obj) ==
    IF obj.t = "str" THEN obj.v
    ELSE IF obj.t = "bool" THEN (IF obj.b THEN "True" ELSE "False")
    ELSE IF obj.t = "int" THEN IntText(obj.n)
    ELSE IF obj.t = "NoneType" THEN "None"
    ELSE "[...]"

\* The order yaml.dump writes the keys of a mapping in: sort_keys=False keeps
\* the insertion order.
DumpOrder(pairs) == pairs

\* env_representer and python_name_representer, with the representers of
\* SafeDumper for the other objects
EnvNodeAlwaysScalar(data, items) ==
    [k |-> "scalar", tag |-> T_ENV, v |-> PyStrOf(data.value)]
EnvNode(data, items) ==
    IF data.value.t = "list"
    THEN [k |-> "seq", tag |-> T_ENV, items |-> items]
    ELSE [k |-> "scalar", tag |-> T_ENV, v |-> PyStrOf(data.value)]

PythonNameNode(data) == [k |-> "scalar", tag |-> T_pyname(data.suffix), v |-> ""]

RECURSIVE Represent(_)
Represent(data) ==
    IF data.t = "EnvTag"
    THEN EnvNode(data,
                 IF data.value.t = "list"
                 THEN [i \in 1..Len(data.value.items) |-> Represent(data.value.items[i])]
                 ELSE <<>>)
    ELSE IF data.t = "PythonNameTag" THEN PythonNameNode(data)
    ELSE IF data.t = "str" THEN [k |-> "scalar", tag |-> T_str, v |-> data.v]
    ELSE IF data.t = "bool"
    THEN [k |-> "scalar", tag |-> T_bool, v |-> IF data.b THEN "true" ELSE "false"]
    ELSE IF data.t = "int" THEN [k |-> "scalar", tag |-> T_int, v |-> IntText(data.n)]
    ELSE IF data.t = "NoneType" THEN [k |-> "scalar", tag |-> T_null, v |-> "null"]
    ELSE IF data.t = "list"
    THEN [k |-> "seq", tag |-> T_seq,
          items |-> [i \in 1..Len(data.items) |-> Represent(data.items[i])]]
    ELSE LET pairs == DumpOrder(data.pairs)
         IN  [k |-> "map", tag |-> T_map,
              pairs |-> [i \in 1..Len(pairs) |->
                            [key |-> pairs[i].key, value |-> Represent(pairs[i].value)]]]

\* Emitter: a scalar is written plain and untagged when its value resolves to
\* its tag, quoted and untagged when it is a str, with its tag otherwise.
RECURSIVE Emit(_)
Emit(node) ==
    IF node.k = "scalar"
    THEN IF ResolvePlain(node.v) = node.tag THEN TScalar(NoTag, "plain", node.v)
         ELSE IF node.tag = T_str THEN TScalar(NoTag, "quoted", node.v)
         ELSE TScalar(node.tag, IF node.v = "" THEN "quoted" ELSE "plain", node.v)
    ELSE IF node.k = "seq"
    THEN TSeq(IF node.tag = T_seq THEN NoTag ELSE node.tag,
              [i \in 1..Len(node.items) |-> Emit(node.items[i])])
    ELSE TMap(IF node.tag = T_map THEN NoTag ELSE node.tag,
              [i \in 1..Len(node.pairs) |->
                  [key |-> node.pairs[i].key, value |-> Emit(node.pairs[i].value)]])

\* yaml.load(f, Loader=yaml.SafeLoader) and
\* yaml.dump(config, f, Dumper=CustomDumper, sort_keys=False)
LoadRaises(text) == ConstructRaises(Compose(text))
yaml_load(text) == Construct(Compose(text))
yaml_dump(data) == Emit(Represent(data))

-----------------------------------------------------------------------------
(* Documents given to the codec *)

MaxEnvItems == 2

Plain(v) == TScalar(NoTag, "plain", v)
Quoted(v) == TScalar(NoTag, "quoted", v)

EnvItemTexts == {Plain("VAR"), Plain("false"), Quoted("false"), Plain("~")}
EnvSeqTexts == {TSeq(T_ENV, items) : items \in SeqsUpTo(MaxEnvItems, EnvItemTexts)}
EnvScalarTexts ==
    {TScalar(T_ENV, "plain", "VAR"), TScalar(T_ENV, "plain", "010"),
     TScalar(T_ENV, "quoted", ""), TScalar(T_ENV, "plain", "true")}
PyNameTexts ==
    {TScalar(T_pyname("material.extensions.emoji.to_svg"), "quoted", ""),
     TScalar(T_pyname("pymdownx.superfences.fence_code_format"), "plain", "x")}
OtherTexts ==
    {Plain("010"), Plain("docs"), Quoted("no"), TSeq(NoTag, <<Plain("yes")>>),
     TMap(NoTag, <<[key |-> "b", value |-> TScalar(T_ENV, "plain", "VAR")],
                   [key |-> "a", value |-> Plain("on")]>>)}
\* An !ENV tag on a mapping: not a payload the codec represents
EnvMapText == TMap(T_ENV, <<[key |-> "a", value |-> Plain("VAR")]>>)

ValueTexts == EnvSeqTexts \cup EnvScalarTexts \cup PyNameTexts \cup OtherTexts
                 \cup {EnvMapText}

KeyOrders == {<<>>, <<"a">>, <<"b">>, <<"a", "b">>, <<"b", "a">>}

DocTexts ==
    UNION {{TMap(NoTag, [i \in 1..Len(keys) |-> [key |-> keys[i], value |-> vals[i]]]) :
               vals \in SeqsOfLen(Len(keys), ValueTexts)} : keys \in KeyOrders}

InitCodec ==
    /\ pc = "codec_load"
    /\ yamlText \in DocTexts
    /\ decoded = None
    /\ dumped = None
    /\ reloaded = None
    /\ argv = [section |-> <<>>, argsOk |-> TRUE]
    /\ cfgFile = [st |-> "missing"]
    /\ docsDir = [st |-> "absent"]
    /\ target_section = <<>>
    /\ config = None
    /\ original_nav = None
    /\ new_nav = <<>>
    /\ found_section = None
    /\ kept_roots = {}
    /\ regex_patterns = <<>>
    /\ outFile = Absent
    /\ writes = 0

CodecLoad ==
    /\ pc = "codec_load"
    /\ \/ /\ LoadRaises(yamlText)            \* yaml.YAMLError: sys.exit(1)
          /\ pc' = "failed"
          /\ UNCHANGED decoded
       \/ /\ ~LoadRaises(yamlText)
          /\ decoded' = yaml_load(yamlText)
          /\ pc' = "codec_dump"
    /\ UNCHANGED <<argv, cfgFile, docsDir, target_section, config, original_nav,
                   new_nav, found_section, kept_roots, regex_patterns, outFile,
                   writes, yamlText, dumped, reloaded>>

CodecDump ==
    /\ pc = "codec_dump"
    /\ dumped' = yaml_dump(decoded)
    /\ pc' = "codec_reload"
    /\ UNCHANGED <<argv, cfgFile, docsDir, target_section, config, original_nav,
                   new_nav, found_section, kept_roots, regex_patterns, outFile,
                   writes, yamlText, decoded, reloaded>>

CodecReload ==
    /\ pc = "codec_reload"
    /\ ~LoadRaises(dumped)
    /\ reloaded' = yaml_load(dumped)
    /\ pc' = "codec_done"
    /\ UNCHANGED <<argv, cfgFile, docsDir, target_section, config, original_nav,
                   new_nav, found_section, kept_roots, regex_patterns, outFile,
                   writes, yamlText, decoded, dumped>>

NextCodec == CodecLoad \/ CodecDump \/ CodecReload

SpecCodec == InitCodec /\ [][NextCodec]_vars

\* The tagged values of a decoded document, each with the shape of its payload
RECURSIVE TaggedValues(_)
TaggedValues(obj) ==
    IF obj.t = "EnvTag" THEN {<<"!ENV", obj.value.t>>}
    ELSE IF obj.t = "PythonNameTag" THEN {<<"python/name:", obj.suffix>>}
    ELSE IF obj.t = "list"
    THEN UNION {TaggedValues(obj.items[i]) : i \in 1..Len(obj.items)}
    ELSE IF obj.t = "dict"
    THEN UNION {TaggedValues(obj.pairs[i].value) : i \in 1..Len(obj.pairs)}
    ELSE {}

\* C9: for a document D of recognized tags (!ENV on a scalar or a sequence,
\* python/name), decode(encode(decode(D))) equals decode(D): the dumped text
\* loads, every tagged value keeps its tag, payload and payload shape, and the
\* keys of the mapping come back in the order D had them.
C9_TagRoundTrip ==
    /\ pc = "codec_reload" => ~LoadRaises(dumped)
    /\ pc = "codec_done" =>
          /\ reloaded = decoded
          /\ [i \in 1..Len(reloaded.pairs) |-> reloaded.pairs[i].key]
                = [i \in 1..Len(yamlText.pairs) |-> yamlText.pairs[i].key]
          /\ [i \in 1..Len(dumped.pairs) |-> dumped.pairs[i].key]
                = [i \in 1..Len(yamlText.pairs) |-> yamlText.pairs[i].key]

\* A document with keys b, a holding an !ENV sequence (with a bool and the
\* string "false" in it) and a python/name reference went through the round
\* trip, and the dumped text is not the text that was read.
C9_Witness ==
    /\ pc = "codec_done"
    /\ Len(decoded.pairs) = 2
    /\ decoded.pairs[1].key = "b"
    /\ decoded.pairs[1].value = EnvTag(PyList(<<PyBool(FALSE), PyStr("false")>>))
    /\ decoded.pairs[2].value.t = "PythonNameTag"
    /\ TaggedValues(reloaded) = {<<"!ENV", "list">>,
                                 <<"python/name:", "pymdownx.superfences.fence_code_format">>}
    /\ dumped # yamlText

====
